---- MODULE Spec2Model ----
(***************************************************************************)
(* A model of the AI Personalized Resume Optimizer: the document parser,   *)
(* the skill extractor, the similarity comparator and the request handler  *)
(* main() of the Streamlit application.                                    *)
(*                                                                         *)
(* A Python str is modelled as a sequence of one-character strings, so     *)
(* that lower(), strip(), split(), the 'in' substring test and sorted()    *)
(* are computed character by character as Python computes them.            *)
(* Optional[str] is a record: None, or Str(t) for the text t.              *)
(***************************************************************************)
EXTENDS Integers, Sequences, FiniteSets, TLC

(***************************************************************************)
(* Bounds of the model.                                                    *)
(***************************************************************************)
\* Number of pieces (words and whitespace runs) an input text of the skill
\* extractor is assembled from.
MaxPieces == 3
\* Length of a skill list handed to categorize_skills.
MaxSkillList == 3

(***************************************************************************)
(* State.                                                                  *)
(***************************************************************************)
VARIABLES
  pc,              \* where main() is: "idle", "resume", "jd", "compare",
                   \* "welcome", "done" or "crashed"
  run,             \* the number of requests started
  components,      \* what st.cache_resource holds for load_components
  model_loads,     \* how many SentenceTransformer models were constructed
  loaded_run,      \* the run that constructed the cached components (0: none)
  disk,            \* the files on disk: path -> file
  resume_file,     \* the widgets' values of this run
  jd_file,
  jd_text,
  resume_text,     \* locals of main()
  jd_content,
  resume_skills,
  jd_skills,
  compared,        \* the arguments of the compare_resume_to_jd calls
  ui               \* the elements shown on the page, in order

appVars ==
  <<pc, run, components, model_loads, loaded_run, disk, resume_file, jd_file, jd_text,
    resume_text, jd_content, resume_skills, jd_skills, compared, ui>>

locals == <<resume_text, jd_content, resume_skills, jd_skills, compared>>

inputs == <<resume_file, jd_file, jd_text>>

process == <<run, components, model_loads, loaded_run>>

VARIABLES
  sk_pc,           \* "idle", "extracted" or "categorized"
  sk_text,         \* the argument of the last extract_skills call
  sk_doc,          \* the Doc spaCy returned in that call
  sk_skills,       \* the list extract_skills returned / categorize_skills got
  sk_categorized   \* the dict categorize_skills returned

skVars == <<sk_pc, sk_text, sk_doc, sk_skills, sk_categorized>>

VARIABLES
  pa_calls         \* the parse_document calls made: [fs, path, outcome]

paVars == <<pa_calls>>

VARIABLES
  sim_pc,          \* "idle", or the method that has just returned
  sim_args,        \* the arguments of that call
  sim_model,       \* the embedding model, on the texts the call encoded
  sim_calls,       \* the batches handed to model.encode, in order
  sim_result       \* what the call returned

simVars == <<sim_pc, sim_args, sim_model, sim_calls, sim_result>>

\* The variables of the parts an action does not belong to.
notApp == <<skVars, paVars, simVars>>

notSk == <<appVars, paVars, simVars>>

notPa == <<appVars, skVars, simVars>>

notSim == <<appVars, skVars, paVars>>

vars == <<appVars, skVars, paVars, simVars>>

(***************************************************************************)
(* Python str primitives.                                                  *)
(***************************************************************************)
\* ord(c) for the characters that occur in the model's texts.
CodePoint ==
  "\t" :> 9 @@ "\n" :> 10 @@ " " :> 32 @@ "#" :> 35 @@ "+" :> 43 @@ "," :> 44 @@
  "-" :> 45 @@ "/" :> 47 @@ "A" :> 65 @@ "B" :> 66 @@ "C" :> 67 @@ "D" :> 68 @@
  "E" :> 69 @@ "F" :> 70 @@ "G" :> 71 @@ "H" :> 72 @@ "I" :> 73 @@ "J" :> 74 @@
  "K" :> 75 @@ "L" :> 76 @@ "M" :> 77 @@ "N" :> 78 @@ "O" :> 79 @@ "P" :> 80 @@
  "Q" :> 81 @@ "R" :> 82 @@ "S" :> 83 @@ "T" :> 84 @@ "U" :> 85 @@ "V" :> 86 @@
  "W" :> 87 @@ "X" :> 88 @@ "Y" :> 89 @@ "Z" :> 90 @@ "a" :> 97 @@ "b" :> 98 @@
  "c" :> 99 @@ "d" :> 100 @@ "e" :> 101 @@ "f" :> 102 @@ "g" :> 103 @@ "h" :> 104 @@
  "i" :> 105 @@ "j" :> 106 @@ "k" :> 107 @@ "l" :> 108 @@ "m" :> 109 @@ "n" :> 110 @@
  "o" :> 111 @@ "p" :> 112 @@ "q" :> 113 @@ "r" :> 114 @@ "s" :> 115 @@ "t" :> 116 @@
  "u" :> 117 @@ "v" :> 118 @@ "w" :> 119 @@ "x" :> 120 @@ "y" :> 121 @@ "z" :> 122

\* str.lower(), per character.
LowerCase ==
  "A" :> "a" @@ "B" :> "b" @@ "C" :> "c" @@ "D" :> "d" @@ "E" :> "e" @@ "F" :> "f" @@
  "G" :> "g" @@ "H" :> "h" @@ "I" :> "i" @@ "J" :> "j" @@ "K" :> "k" @@ "L" :> "l" @@
  "M" :> "m" @@ "N" :> "n" @@ "O" :> "o" @@ "P" :> "p" @@ "Q" :> "q" @@ "R" :> "r" @@
  "S" :> "s" @@ "T" :> "t" @@ "U" :> "u" @@ "V" :> "v" @@ "W" :> "w" @@ "X" :> "x" @@
  "Y" :> "y" @@ "Z" :> "z"

Whitespace == {" ", "\t", "\n"}

None == [isNone |-> TRUE, str |-> <<>>]

Str(t) == [isNone |-> FALSE, str |-> t]

\* Python truth value of an Optional[str]: None and "" are false.
Truthy(v) == ~v.isNone /\ v.str # <<>>

LowerChar(c) == IF c \in DOMAIN LowerCase THEN LowerCase[c] ELSE c

Lower(t) == [i \in 1..Len(t) |-> LowerChar(t[i])]

RECURSIVE LStrip(_)
LStrip(t) ==
  IF t # <<>> /\ Head(t) \in Whitespace THEN LStrip(Tail(t)) ELSE t

RECURSIVE RStrip(_)
RStrip(t) ==
  IF t # <<>> /\ t[Len(t)] \in Whitespace
  THEN RStrip(SubSeq(t, 1, Len(t) - 1))
  ELSE t

\* str.strip()
Strip(t) == RStrip(LStrip(t))

\* re.sub(r'\s+', ' ', t): every maximal run of whitespace becomes one space.
RECURSIVE CollapseWhitespace(_)
CollapseWhitespace(t) ==
  IF t = <<>> THEN <<>>
  ELSE IF Head(t) \in Whitespace
       THEN <<" ">> \o CollapseWhitespace(LStrip(t))
       ELSE <<Head(t)>> \o CollapseWhitespace(Tail(t))

\* sub in t, for Python strings.
IsSubstring(sub, t) ==
  \E i \in 1..(Len(t) - Len(sub) + 1) : SubSeq(t, i, i + Len(sub) - 1) = sub

\* t.startswith(sep)
StartsWith(t, sep) == Len(t) >= Len(sep) /\ SubSeq(t, 1, Len(sep)) = sep

\* t.split(sep): the pieces between the non-overlapping occurrences of sep,
\* found left to right; empty pieces are kept.
RECURSIVE SplitAcc(_, _, _)
SplitAcc(t, sep, cur) ==
  IF t = <<>> THEN <<cur>>
  ELSE IF StartsWith(t, sep)
       THEN <<cur>> \o SplitAcc(SubSeq(t, Len(sep) + 1, Len(t)), sep, <<>>)
       ELSE SplitAcc(Tail(t), sep, Append(cur, Head(t)))

SplitOn(t, sep) == SplitAcc(t, sep, <<>>)

\* t.split(): the maximal runs of non-whitespace characters.
RECURSIVE SplitWsAcc(_, _)
SplitWsAcc(t, cur) ==
  IF t = <<>> THEN (IF cur = <<>> THEN <<>> ELSE <<cur>>)
  ELSE IF Head(t) \in Whitespace
       THEN (IF cur = <<>> THEN <<>> ELSE <<cur>>) \o SplitWsAcc(Tail(t), <<>>)
       ELSE SplitWsAcc(Tail(t), Append(cur, Head(t)))

SplitWhitespace(t) == SplitWsAcc(t, <<>>)

\* t.replace(' ', '')
RemoveSpaces(t) == SelectSeq(t, LAMBDA c : c # " ")

\* sep.join(parts)
RECURSIVE Join(_, _)
Join(parts, sep) ==
  IF parts = <<>> THEN <<>>
  ELSE IF Len(parts) = 1 THEN parts[1]
       ELSE parts[1] \o sep \o Join(Tail(parts), sep)

\* The concatenation of a sequence of strings.
Concat(parts) == Join(parts, <<>>)

\* a < b for Python strings: code point order, a proper prefix first.
RECURSIVE StrLess(_, _)
StrLess(a, b) ==
  IF b = <<>> THEN FALSE
  ELSE IF a = <<>> THEN TRUE
  ELSE IF Head(a) # Head(b) THEN CodePoint[Head(a)] < CodePoint[Head(b)]
  ELSE StrLess(Tail(a), Tail(b))

\* The strings of S from the greatest down: a sort in the wrong direction.
RECURSIVE SortedStringsDescending(_)
SortedStringsDescending(S) ==
  IF S = {} THEN <<>>
  ELSE LET m == CHOOSE x \in S : \A y \in S : x = y \/ StrLess(y, x)
       IN <<m>> \o SortedStringsDescending(S \ {m})

\* sorted(list(S)) for a set S of strings.
RECURSIVE SortedStrings(_)
SortedStrings(S) ==
  IF S = {} THEN <<>>
  ELSE LET m == CHOOSE x \in S : \A y \in S : x = y \/ StrLess(x, y)
       IN <<m>> \o SortedStrings(S \ {m})

Range(s) == {s[i] : i \in 1..Len(s)}

\* All sequences over S of length at most n.
SeqsUpTo(S, n) == UNION {[1..k -> S] : k \in 0..n}

(***************************************************************************)
(* Skill extractor (skill_extractor.py).                                   *)
(***************************************************************************)
\* self.skill_keywords, in the declared (dict insertion) order.
skill_keywords ==
  <<
     [category |-> "programming languages",
      skill_set |-> {
        <<"p","y","t","h","o","n">>,
        <<"j","a","v","a">>,
        <<"j","a","v","a","s","c","r","i","p","t">>,
        <<"c","+","+">>,
        <<"c","#">>,
        <<"r","u","b","y">>,
        <<"p","h","p">>,
        <<"g","o">>,
        <<"r","u","s","t">>,
        <<"s","w","i","f","t">>,
        <<"k","o","t","l","i","n">>}],
     [category |-> "frameworks",
      skill_set |-> {
        <<"d","j","a","n","g","o">>,
        <<"f","l","a","s","k">>,
        <<"r","e","a","c","t">>,
        <<"a","n","g","u","l","a","r">>,
        <<"v","u","e">>,
        <<"s","p","r","i","n","g">>,
        <<"h","i","b","e","r","n","a","t","e">>,
        <<"t","e","n","s","o","r","f","l","o","w">>,
        <<"p","y","t","o","r","c","h">>,
        <<"s","c","i","k","i","t","-","l","e","a","r","n">>}],
     [category |-> "databases",
      skill_set |-> {
        <<"m","y","s","q","l">>,
        <<"p","o","s","t","g","r","e","s","q","l">>,
        <<"m","o","n","g","o","d","b">>,
        <<"r","e","d","i","s">>,
        <<"s","q","l","i","t","e">>,
        <<"o","r","a","c","l","e">>,
        <<"s","q","l"," ","s","e","r","v","e","r">>}],
     [category |-> "tools",
      skill_set |-> {
        <<"g","i","t">>,
        <<"d","o","c","k","e","r">>,
        <<"k","u","b","e","r","n","e","t","e","s">>,
        <<"j","e","n","k","i","n","s">>,
        <<"a","w","s">>,
        <<"a","z","u","r","e">>,
        <<"g","c","p">>,
        <<"l","i","n","u","x">>,
        <<"w","i","n","d","o","w","s">>}],
     [category |-> "soft skills",
      skill_set |-> {
        <<"c","o","m","m","u","n","i","c","a","t","i","o","n">>,
        <<"l","e","a","d","e","r","s","h","i","p">>,
        <<"t","e","a","m","w","o","r","k">>,
        <<"p","r","o","b","l","e","m"," ","s","o","l","v","i","n","g">>,
        <<"a","n","a","l","y","t","i","c","a","l"," ","t","h","i","n","k","i","n","g">>}],
     [category |-> "methodologies",
      skill_set |-> {
        <<"a","g","i","l","e">>,
        <<"s","c","r","u","m">>,
        <<"k","a","n","b","a","n">>,
        <<"w","a","t","e","r","f","a","l","l">>,
        <<"d","e","v","o","p","s">>,
        <<"c","i","/","c","d">>}]
  >>

Categories == 1..Len(skill_keywords)

\* self.all_skills
all_skills == UNION {skill_keywords[c].skill_set : c \in Categories}

\* The words a token is never taken from (the list in the POS loop).
token_exclusions ==
  {<<"e","x","p","e","r","i","e","n","c","e">>,
   <<"s","k","i","l","l","s">>,
   <<"k","n","o","w","l","e","d","g","e">>,
   <<"a","b","i","l","i","t","y">>,
   <<"y","e","a","r","s">>}

\* The words the final filter drops.
common_words ==
  {<<"w","o","r","k">>,
   <<"t","e","a","m">>,
   <<"p","r","o","j","e","c","t">>,
   <<"c","o","m","p","a","n","y">>,
   <<"c","l","i","e","n","t">>,
   <<"u","s","e","r">>,
   <<"s","y","s","t","e","m">>,
   <<"d","a","t","a">>,
   <<"t","i","m","e">>,
   <<"p","r","o","c","e","s","s">>}

\* text = re.sub(r'\s+', ' ', text.lower().strip())
Normalize(t) == CollapseWhitespace(Strip(Lower(t)))

\* The annotations the spaCy pipeline may give token i of an n-token Doc:
\* part of speech, stop-word flag, dependency label and head token.
TokenTags(i, n) ==
  {[pos_ |-> "VERB", is_stop |-> FALSE, dep_ |-> "ROOT", head |-> i]}
  \cup {[pos_ |-> "NOUN", is_stop |-> st, dep_ |-> "ROOT", head |-> i] :
          st \in BOOLEAN}
  \cup {[pos_ |-> p, is_stop |-> FALSE, dep_ |-> "compound", head |-> h] :
          p \in {"NOUN", "PROPN"}, h \in (1..n) \ {i}}

\* doc = self.nlp(text): the tokens of the text, each with annotations the
\* statistical model chooses.
Docs(t) ==
  LET toks == SplitWhitespace(t)
      n == Len(toks)
      tags == UNION {TokenTags(i, n) : i \in 1..n}
  IN {[i \in 1..n |-> [text |-> toks[i], pos_ |-> f[i].pos_,
                       is_stop |-> f[i].is_stop, dep_ |-> f[i].dep_,
                       head |-> f[i].head]] :
        f \in {g \in [1..n -> tags] : \A i \in 1..n : g[i] \in TokenTags(i, n)}}

\* The keyword loop: a skill is taken when it is one of the whitespace
\* separated words, or when the skill without its spaces occurs anywhere
\* in the text.
KeywordMatches(t) ==
  LET words == Range(SplitWhitespace(t))
  IN {skill \in all_skills :
        skill \in words \/ IsSubstring(RemoveSpaces(skill), t)}

\* What the POS loop adds for token i of doc.
TokenCandidates(doc, i) ==
  LET token == doc[i]
  IN IF token.pos_ \in {"NOUN", "PROPN"} /\ Len(token.text) > 2
     THEN IF ~token.is_stop /\ token.text \notin token_exclusions
          THEN IF token.dep_ = "compound"
                  /\ doc[token.head].pos_ \in {"NOUN", "PROPN"}
               THEN LET skill == token.text \o <<" ">> \o doc[token.head].text
                    IN IF skill \in all_skills
                          \/ Len(SplitWhitespace(skill)) > 1
                       THEN {Lower(skill)}
                       ELSE {}
               ELSE {Lower(token.text)}
          ELSE {}
     ELSE {}

PosCandidates(doc) == UNION {TokenCandidates(doc, i) : i \in DOMAIN doc}

\* A final filter that only drops the short candidates and keeps the
\* common words.
PostFilterLengthOnly(extracted_skills) ==
  {skill \in extracted_skills : Len(skill) > 2}

\* The final filter over extracted_skills.
PostFilter(extracted_skills) ==
  {skill \in extracted_skills : Len(skill) > 2 /\ skill \notin common_words}

\* extract_skills(text), with doc the Doc that self.nlp returns for the
\* normalised text.
extract_skills(text, doc) ==
  IF ~Truthy(text) THEN <<>>
  ELSE LET t == Normalize(text.str)
           extracted_skills == KeywordMatches(t) \cup PosCandidates(doc)
       IN SortedStrings(PostFilter(extracted_skills))

\* categorize_skills with the inner test made against all_skills and no
\* break: a known skill is appended to every category.
AppendedToAny(skill) ==
  IF skill \in all_skills THEN Categories ELSE {}

\* The categories whose list the inner loop of categorize_skills appends
\* skill to: the first category, in declared order, whose set holds it.
AppendedTo(skill) ==
  LET m == {c \in Categories : skill \in skill_keywords[c].skill_set}
  IN IF m = {} THEN {}
     ELSE {CHOOSE c \in m : \A d \in m : c <= d}

\* categorize_skills(skills): the dict of the non-empty category lists.
categorize_skills(skills) ==
  LET categorized ==
        [c \in Categories |->
           SelectSeq(skills, LAMBDA skill : c \in AppendedTo(skill))]
      kept == {c \in Categories : categorized[c] # <<>>}
  IN [k \in {skill_keywords[c].category : c \in kept} |->
        categorized[CHOOSE c \in kept : skill_keywords[c].category = k]]

(***************************************************************************)
(* Inputs of the skill extractor's calls.                                  *)
(***************************************************************************)
\* The pieces a text is assembled from: words and whitespace runs.
TextPieces ==
  {<<"G","o">>, <<"c","#">>, <<"s","q","l">>, <<"s","e","r","v","e","r">>,
   <<"d","a","t","a">>, <<"g","i","t">>, <<" ">>, <<"\t","\n">>}

SkillTexts == {Concat(ps) : ps \in SeqsUpTo(TextPieces, MaxPieces)}

\* The skills a list handed to categorize_skills is made of.
SkillPool ==
  {<<"g","o">>, <<"g","i","t">>, <<"s","q","l"," ","s","e","r","v","e","r">>,
   <<"d","a","t","a">>}

SkillLists == SeqsUpTo(SkillPool, MaxSkillList)

SkInit ==
  /\ sk_pc = "idle"
  /\ sk_text = None
  /\ sk_doc = <<>>
  /\ sk_skills = <<>>
  /\ sk_categorized = <<>>

\* skills = extractor.extract_skills(text)
ExtractSkills ==
  /\ sk_pc = "idle"
  /\ \E text \in {None} \cup {Str(t) : t \in SkillTexts} :
       \E doc \in Docs(Normalize(text.str)) :
         /\ sk_text' = text
         /\ sk_doc' = doc
         /\ sk_skills' = extract_skills(text, doc)
  /\ sk_pc' = "extracted"
  /\ UNCHANGED sk_categorized
  /\ UNCHANGED notSk

\* categorized = extractor.categorize_skills(skills), on the list just
\* extracted (as main() calls it).
CategorizeExtracted ==
  /\ sk_pc = "extracted"
  /\ sk_categorized' = categorize_skills(sk_skills)
  /\ sk_pc' = "categorized"
  /\ UNCHANGED <<sk_text, sk_doc, sk_skills>>
  /\ UNCHANGED notSk

\* categorized = extractor.categorize_skills(skills), on any list.
CategorizeSkills ==
  /\ sk_pc = "idle"
  /\ \E skills \in SkillLists :
       /\ sk_skills' = skills
       /\ sk_categorized' = categorize_skills(skills)
  /\ sk_pc' = "categorized"
  /\ UNCHANGED <<sk_text, sk_doc>>
  /\ UNCHANGED notSk

\* The caller is done with the results.
SkReturn ==
  /\ sk_pc # "idle"
  /\ sk_pc' = "idle"
  /\ sk_text' = None
  /\ sk_doc' = <<>>
  /\ sk_skills' = <<>>
  /\ sk_categorized' = <<>>
  /\ UNCHANGED notSk

(***************************************************************************)
(* Document parser (document_parser.py).                                   *)
(*                                                                         *)
(* A file on disk is a record: format says what its bytes are ("pdf",      *)
(* "docx", "txt" or "garbage"), parts are its pages (pdf), paragraphs      *)
(* (docx) or lines (txt).  A file system maps the paths that exist to      *)
(* their files.  A call's outcome is [raised, value]: whether an exception *)
(* left the function, and what it returned otherwise.                      *)
(***************************************************************************)
Returned(v) == [raised |-> FALSE, value |-> v]

\* PyPDF2.PdfReader(file) raises unless the bytes are a PDF.
PdfReaderRaises(file) == file.format # "pdf"

\* docx.Document(file_path) raises unless the bytes are a DOCX package.
DocxReaderRaises(file) == file.format # "docx"

\* text = ""; for part in parts: text += part + "\n"; return text.strip()
JoinedText(parts) == Strip(Concat([i \in 1..Len(parts) |-> parts[i] \o <<"\n">>]))

\* parse_pdf: any exception of the reader is caught and None returned.
parse_pdf(fs, file_path) ==
  IF file_path \notin DOMAIN fs \/ PdfReaderRaises(fs[file_path])
  THEN Returned(None)
  ELSE Returned(Str(JoinedText(fs[file_path].parts)))

\* parse_docx: any exception of the reader is caught and None returned.
parse_docx(fs, file_path) ==
  IF file_path \notin DOMAIN fs \/ DocxReaderRaises(fs[file_path])
  THEN Returned(None)
  ELSE Returned(Str(JoinedText(fs[file_path].parts)))

\* os.path.splitext(path)[1]: from the last dot on, "" without a dot.
RECURSIVE SplitExt(_)
SplitExt(path) ==
  IF path = <<>> THEN <<>>
  ELSE LET rest == SplitExt(Tail(path))
       IN IF rest # <<>> THEN rest
          ELSE IF Head(path) = "." THEN path ELSE <<>>

\* parse_document(file_path) on the file system fs.
parse_document(fs, file_path) ==
  IF file_path \notin DOMAIN fs
  THEN Returned(None)
  ELSE LET file_extension == Lower(SplitExt(file_path))
       IN IF file_extension = <<".","p","d","f">>
          THEN parse_pdf(fs, file_path)
          ELSE IF file_extension = <<".","d","o","c","x">>
               THEN parse_docx(fs, file_path)
               ELSE Returned(None)

(***************************************************************************)
(* Inputs of the parser's calls.                                           *)
(***************************************************************************)
\* The number of parse_document calls a caller makes before it looks at
\* the results (two in the module's own script and in main()).
MaxParseCalls == 2

File(format, parts) == [format |-> format, parts |-> parts]

SampleFiles ==
  {File("pdf", << <<"G","i","t">>, <<" ">> >>),
   File("pdf", << >>),
   File("docx", << <<"G","o">>, <<"s","q","l">> >>),
   File("txt", << <<"G","i","t">> >>),
   File("garbage", << >>)}

SamplePaths ==
  {<<"a",".","p","d","f">>, <<"a",".","P","D","F">>,
   <<"a",".","d","o","c","x">>, <<"a",".","t","x","t">>,
   <<"a",".","r","t","f">>, <<"a">>}

\* A file system with at most the one file at path.
FileSystems(path) ==
  {<<>>} \cup {[p \in {path} |-> f] : f \in SampleFiles}

PaInit == pa_calls = <<>>

\* text = DocumentParser.parse_document(path)
ParseDocument ==
  /\ Len(pa_calls) < MaxParseCalls
  /\ \E path \in SamplePaths : \E fs \in FileSystems(path) :
       pa_calls' = Append(pa_calls,
                          [fs |-> fs, path |-> path,
                           outcome |-> parse_document(fs, path)])
  /\ UNCHANGED notPa

\* The caller is done with the results.
PaReturn ==
  /\ Len(pa_calls) = MaxParseCalls
  /\ pa_calls' = <<>>
  /\ UNCHANGED notPa

(***************************************************************************)
(* Similarity comparator (similarity_comparator.py).                       *)
(*                                                                         *)
(* A float similarity is an integer number of hundredths.  The loaded      *)
(* SentenceTransformer is a function from texts to embedding vectors; the  *)
(* vectors are whatever the model produces, so a call may meet any         *)
(* function into Embeddings.                                               *)
(***************************************************************************)
\* Number of paragraphs (pieces between blank lines) of a compared text.
MaxParagraphs == 2
\* Length of the jd_list handed to find_best_matches.
MaxCandidates == 3
\* top_k ranges over -MaxTopK..MaxTopK.
MaxTopK == 4
\* Scores handed to get_similarity_score range over -ScoreLimit..ScoreLimit
\* hundredths.
ScoreLimit == 120

\* The vectors model.encode may return (all of Euclidean norm 5).
Embeddings == {<<5, 0>>, <<4, 3>>, <<-3, 4>>}

Dot(a, b) == a[1] * b[1] + a[2] * b[2]

\* The integer square root.
ISqrt(n) == CHOOSE r \in 0..n : r * r <= n /\ n < (r + 1) * (r + 1)

\* sklearn's cosine_similarity of two vectors, in hundredths: the dot
\* product of the normalised vectors (a zero vector stays zero).
CosineSimilarity(a, b) ==
  IF Dot(a, a) = 0 \/ Dot(b, b) = 0 THEN 0
  ELSE (100 * Dot(a, b)) \div ISqrt(Dot(a, a) * Dot(b, b))

\* encode_texts(texts) = self.model.encode(texts)
encode_texts(model, texts) == [i \in 1..Len(texts) |-> model[texts[i]]]

\* compute_similarity(text1, text2)
compute_similarity(model, text1, text2) ==
  LET embeddings == encode_texts(model, <<text1, text2>>)
  IN CosineSimilarity(embeddings[1], embeddings[2])

\* The batches compute_similarity hands to the model.
ComputeCalls(text1, text2) == << <<text1, text2>> >>

BlankLine == <<"\n", "\n">>

\* [s.strip() for s in text.split('\n\n') if s.strip()]
Sections(text) ==
  LET pieces == SplitOn(text, BlankLine)
      stripped == [i \in 1..Len(pieces) |-> Strip(pieces[i])]
  IN SelectSeq(stripped, LAMBDA sec : sec # <<>>)

\* Sections paired by position (zip of the two lists) instead of by the
\* nested loops.
SectionPairsZipped(resume_sections, jd_sections) ==
  [k \in 1..(IF Len(resume_sections) < Len(jd_sections)
             THEN Len(resume_sections) ELSE Len(jd_sections)) |->
     <<resume_sections[k], jd_sections[k]>>]

\* The (resume_section, jd_section) pairs in the order of the nested loops.
SectionPairs(resume_sections, jd_sections) ==
  [k \in 1..(Len(resume_sections) * Len(jd_sections)) |->
     <<resume_sections[((k - 1) \div Len(jd_sections)) + 1],
       jd_sections[((k - 1) % Len(jd_sections)) + 1]>>]

RECURSIVE SumSeq(_)
SumSeq(xs) == IF xs = <<>> THEN 0 ELSE Head(xs) + SumSeq(Tail(xs))

MaxOf(xs) == CHOOSE x \in Range(xs) : \A y \in Range(xs) : y <= x

MinOf(xs) == CHOOSE x \in Range(xs) : \A y \in Range(xs) : x <= y

\* np.mean(xs), in hundredths.
Mean(xs) == SumSeq(xs) \div Len(xs)

\* section_similarities of compare_resume_to_jd.
SectionSimilarities(model, resume_t, jd_t) ==
  LET pairs == SectionPairs(Sections(resume_t), Sections(jd_t))
  IN [k \in 1..Len(pairs) |->
        compute_similarity(model, pairs[k][1], pairs[k][2])]

\* compare_resume_to_jd(resume_text, jd_text)
compare_resume_to_jd(model, resume_t, jd_t) ==
  LET section_similarities ==
        SectionSimilarities(model, resume_t, jd_t)
      none == section_similarities = <<>>
  IN [overall_similarity |->
        compute_similarity(model, resume_t, jd_t),
      avg_section_similarity |->
        IF none THEN 0 ELSE Mean(section_similarities),
      max_section_similarity |->
        IF none THEN 0 ELSE MaxOf(section_similarities),
      min_section_similarity |->
        IF none THEN 0 ELSE MinOf(section_similarities)]

\* The batches compare_resume_to_jd hands to the model, in order.
CompareCalls(resume_t, jd_t) ==
  ComputeCalls(resume_t, jd_t)
  \o SectionPairs(Sections(resume_t), Sections(jd_t))

\* A descending sort that is not stable: x goes in front of the entries of
\* its own score (what reversing an ascending sort gives).
RECURSIVE InsertDescendingStrict(_, _)
InsertDescendingStrict(sorted, x) ==
  IF sorted = <<>> THEN <<x>>
  ELSE IF Head(sorted)[2] > x[2]
       THEN <<Head(sorted)>> \o InsertDescendingStrict(Tail(sorted), x)
       ELSE <<x>> \o sorted

\* list.sort(key=lambda x: x[1], reverse=True): a stable sort, so entries
\* of equal score keep their order.  Insert x behind every entry whose
\* score is at least its own.
RECURSIVE InsertDescending(_, _)
InsertDescending(sorted, x) ==
  IF sorted = <<>> THEN <<x>>
  ELSE IF Head(sorted)[2] >= x[2]
       THEN <<Head(sorted)>> \o InsertDescending(Tail(sorted), x)
       ELSE <<x>> \o sorted

RECURSIVE SortDescending(_)
SortDescending(xs) ==
  IF xs = <<>> THEN <<>>
  ELSE InsertDescending(SortDescending(SubSeq(xs, 1, Len(xs) - 1)),
                        xs[Len(xs)])

\* xs[:k] for a Python list: a negative k counts from the end.
SliceTo(xs, k) ==
  IF k >= 0
  THEN SubSeq(xs, 1, IF k < Len(xs) THEN k ELSE Len(xs))
  ELSE SubSeq(xs, 1, IF Len(xs) + k > 0 THEN Len(xs) + k ELSE 0)

\* find_best_matches(resume_text, jd_list, top_k); indices count from 0.
find_best_matches(model, resume_t, jd_list, top_k) ==
  LET similarities ==
        [i \in 1..Len(jd_list) |->
           <<i - 1, compute_similarity(model, resume_t, jd_list[i])>>]
  IN SliceTo(SortDescending(similarities), top_k)

\* get_similarity_score with strict comparisons: a boundary value falls
\* into the lower band.
get_similarity_score_strict(similarity) ==
  IF similarity > 80 THEN "Excellent match"
  ELSE IF similarity > 60 THEN "Good match"
  ELSE IF similarity > 40 THEN "Fair match"
  ELSE IF similarity > 20 THEN "Poor match"
  ELSE "Very poor match"

\* get_similarity_score(similarity), the score in hundredths.
get_similarity_score(similarity) ==
  IF similarity >= 80 THEN "Excellent match"
  ELSE IF similarity >= 60 THEN "Good match"
  ELSE IF similarity >= 40 THEN "Fair match"
  ELSE IF similarity >= 20 THEN "Poor match"
  ELSE "Very poor match"

(***************************************************************************)
(* Inputs of the comparator's calls.                                       *)
(***************************************************************************)
Paragraphs == {<<"a">>, <<" ", "b">>, <<" ">>}

\* Texts of up to MaxParagraphs paragraphs with blank lines between them.
SimTexts ==
  {Join(ps, BlankLine) : ps \in SeqsUpTo(Paragraphs, MaxParagraphs)}

CandidateTexts == {<<"a">>, <<" ", "b">>}

ResumeSamples == {<<"a">>, <<>>}

\* The models that differ on the texts a call encodes.
Models(texts) == [texts -> Embeddings]

SimInit ==
  /\ sim_pc = "idle"
  /\ sim_args = <<>>
  /\ sim_model = <<>>
  /\ sim_calls = <<>>
  /\ sim_result = <<>>

\* score = comparator.compute_similarity(text1, text2)
ComputeSimilarity ==
  /\ sim_pc = "idle"
  /\ \E text1 \in SimTexts, text2 \in SimTexts :
       \E model \in Models({text1, text2}) :
         /\ sim_args' = <<text1, text2>>
         /\ sim_model' = model
         /\ sim_calls' = ComputeCalls(text1, text2)
         /\ sim_result' = compute_similarity(model, text1, text2)
  /\ sim_pc' = "compute_similarity"
  /\ UNCHANGED notSim

\* results = comparator.compare_resume_to_jd(resume_t, jd_t)
CompareResumeToJd ==
  /\ sim_pc = "idle"
  /\ \E resume_t \in SimTexts, jd_t \in SimTexts :
       \E model \in Models({resume_t, jd_t}
                           \cup Range(Sections(resume_t))
                           \cup Range(Sections(jd_t))) :
         /\ sim_args' = <<resume_t, jd_t>>
         /\ sim_model' = model
         /\ sim_calls' = CompareCalls(resume_t, jd_t)
         /\ sim_result' = compare_resume_to_jd(model, resume_t, jd_t)
  /\ sim_pc' = "compare_resume_to_jd"
  /\ UNCHANGED notSim

\* matches = comparator.find_best_matches(resume_t, jd_list, top_k)
FindBestMatches ==
  /\ sim_pc = "idle"
  /\ \E resume_t \in ResumeSamples,
        jd_list \in SeqsUpTo(CandidateTexts, MaxCandidates),
        top_k \in (-MaxTopK)..MaxTopK :
       \E model \in Models({resume_t} \cup Range(jd_list)) :
         /\ sim_args' = <<resume_t, jd_list, top_k>>
         /\ sim_model' = model
         /\ sim_calls' = [i \in 1..Len(jd_list) |-> <<resume_t, jd_list[i]>>]
         /\ sim_result' = find_best_matches(model, resume_t, jd_list, top_k)
  /\ sim_pc' = "find_best_matches"
  /\ UNCHANGED notSim

\* label = comparator.get_similarity_score(similarity)
GetSimilarityScore ==
  /\ sim_pc = "idle"
  /\ \E similarity \in (-ScoreLimit)..ScoreLimit :
       /\ sim_args' = <<similarity>>
       /\ sim_result' = get_similarity_score(similarity)
  /\ sim_model' = <<>>
  /\ sim_calls' = <<>>
  /\ sim_pc' = "get_similarity_score"
  /\ UNCHANGED notSim

\* The caller is done with the result.
SimReturn ==
  /\ sim_pc # "idle"
  /\ sim_pc' = "idle"
  /\ sim_args' = <<>>
  /\ sim_model' = <<>>
  /\ sim_calls' = <<>>
  /\ sim_result' = <<>>
  /\ UNCHANGED notSim

(***************************************************************************)
(* The request handler main() (app.py).                                    *)
(*                                                                         *)
(* Streamlit runs main() from the top for every interaction; one run is a  *)
(* request.  The cached components and the files on disk outlive a run,    *)
(* everything else is local to it.  An exception that leaves main() ends   *)
(* the run (pc = "crashed") and Streamlit shows it.                        *)
(***************************************************************************)
\* Number of requests (script runs) in one process.
MaxRuns == 2

\* An uploaded file (st.file_uploader's value), or no upload.
NoUpload == [present |-> FALSE, name |-> <<>>, file |-> File("none", << >>)]

Upload(name, file) == [present |-> TRUE, name |-> name, file |-> file]

\* A local variable that is not yet assigned.
Unbound == [bound |-> FALSE, value |-> <<>>]

Bound(v) == [bound |-> TRUE, value |-> v]

\* One element shown on the page.
Shown(kind, about, body) == [kind |-> kind, about |-> about, body |-> body]

\* What os.unlink(path) leaves of the file system.
Unlink(fs, path) == [p \in DOMAIN fs \ {path} |-> fs[p]]

\* The file system with file written at path.
WithFile(fs, path, file) ==
  [p \in DOMAIN fs \cup {path} |-> IF p = path THEN file ELSE fs[p]]

Digits == <<"1", "2", "3", "4", "5", "6", "7", "8", "9">>

\* The name tempfile.NamedTemporaryFile(delete=False, suffix=...) creates:
\* one that no file on disk has, ending in the suffix.
TempName(fs, suffix) ==
  LET free == {i \in 1..Len(Digits) : <<"t", Digits[i]>> \o suffix \notin DOMAIN fs}
  IN <<"t", Digits[CHOOSE i \in free : \A j \in free : i <= j]>> \o suffix

\* suffix=f".{upload.name.split('.')[-1]}"
UploadSuffix(upload) ==
  LET pieces == SplitOn(upload.name, <<".">>)
  IN <<".">> \o pieces[Len(pieces)]

\* What a write that failed part way leaves in the temporary file.
PartialFile == File("garbage", << >>)

\* The outcomes of extractor.extract_skills(text): the list for some Doc
\* of the spaCy pipeline, or an exception of the pipeline, which runs only
\* when the text is not empty.
SkillOutcomes(text) ==
  IF ~Truthy(text)
  THEN {[raised |-> FALSE, value |-> extract_skills(text, <<>>)]}
  ELSE {[raised |-> TRUE, value |-> <<>>]}
       \cup {[raised |-> FALSE, value |-> extract_skills(text, doc)] :
               doc \in Docs(Normalize(text.str))}

\* The elements the skill display adds: the list, and the categories when
\* there are any.
SkillDisplay(about, skills) ==
  LET categories == categorize_skills(skills)
  IN <<Shown("skills", about, skills)>>
     \o (IF DOMAIN categories # {}
         THEN <<Shown("categories", about, categories)>>
         ELSE <<>>)

\* The if-chain of the recommendations on the overall score (hundredths).
Recommendation(similarity_score) ==
  IF similarity_score >= 80 THEN "Excellent match"
  ELSE IF similarity_score >= 60 THEN "Good match"
  ELSE IF similarity_score >= 40 THEN "Fair match"
  ELSE "Poor match"

(***************************************************************************)
(* Inputs of a request.                                                    *)
(***************************************************************************)
ResumeUploads ==
  {NoUpload}
  \cup {Upload(n, f) :
          n \in {<<"r",".","p","d","f">>, <<"r",".","D","O","C","X">>},
          f \in {File("pdf", << <<"G","i","t">>, <<" ">> >>),
                 File("docx", << <<"G","o">>, <<"s","q","l">> >>),
                 File("pdf", << >>)}}

JdUploads ==
  {NoUpload}
  \cup {Upload(n, f) :
          n \in {<<"j",".","p","d","f">>, <<"j",".","t","x","t">>},
          f \in {File("pdf", << <<"G","i","t">>, <<" ">> >>),
                 File("txt", << <<"G","i","t">> >>)}}

PastedTexts == {<<>>, <<"s","q","l">>}

AppInit ==
  /\ pc = "idle"
  /\ run = 0
  /\ components = "none"
  /\ model_loads = 0
  /\ loaded_run = 0
  /\ disk = <<>>
  /\ resume_file = NoUpload
  /\ jd_file = NoUpload
  /\ jd_text = <<>>
  /\ resume_text = Str(<<>>)
  /\ jd_content = Str(<<>>)
  /\ resume_skills = Unbound
  /\ jd_skills = Unbound
  /\ compared = <<>>
  /\ ui = <<>>

\* A cache that never answers: every load_components() call runs the
\* function body.
CacheNeverHit == FALSE

\* st.cache_resource answers the load_components() call from its cache:
\* an earlier call returned the components and they were stored.
CacheHit == components = "loaded"

\* A request starts: the widgets have their values, load_components() is
\* served from the cache or constructs the components (which may raise),
\* and resume_text and jd_content start empty.
Rerun ==
  /\ pc \in {"idle", "done", "crashed"}
  /\ run < MaxRuns
  /\ run' = run + 1
  /\ \E rf \in ResumeUploads, jf \in JdUploads, jt \in PastedTexts :
       /\ resume_file' = rf
       /\ jd_file' = jf
       /\ jd_text' = jt
       /\ \/ /\ CacheHit
             /\ UNCHANGED <<components, model_loads, loaded_run>>
             /\ ui' = <<>>
             /\ pc' = IF rf.present \/ jf.present \/ jt # <<>>
                      THEN "resume" ELSE "welcome"
          \/ /\ ~CacheHit
             /\ components' = "loaded"
             /\ model_loads' = model_loads + 1
             /\ loaded_run' = run'
             /\ ui' = <<>>
             /\ pc' = IF rf.present \/ jf.present \/ jt # <<>>
                      THEN "resume" ELSE "welcome"
          \/ /\ ~CacheHit
             /\ UNCHANGED <<components, model_loads, loaded_run>>
             /\ ui' = <<Shown("exception", "components", <<>>)>>
             /\ pc' = "crashed"
  /\ resume_text' = Str(<<>>)
  /\ jd_content' = Str(<<>>)
  /\ resume_skills' = Unbound
  /\ jd_skills' = Unbound
  /\ compared' = <<>>
  /\ UNCHANGED disk
  /\ UNCHANGED notApp

\* The try block of the resume: parse, report success, extract and show
\* the skills; any exception is shown as an error.
ResumeTry(outcome) ==
  IF outcome.raised
  THEN /\ ui' = ui \o <<Shown("error", "resume", "Error parsing resume")>>
       /\ UNCHANGED <<resume_text, resume_skills>>
  ELSE /\ resume_text' = outcome.value
       /\ \E skills \in SkillOutcomes(outcome.value) :
            IF skills.raised
            THEN /\ ui' = ui
                      \o <<Shown("success", "resume", "Resume parsed successfully!"),
                           Shown("error", "resume", "Error parsing resume")>>
                 /\ UNCHANGED resume_skills
            ELSE /\ ui' = ui
                      \o <<Shown("success", "resume", "Resume parsed successfully!")>>
                      \o SkillDisplay("resume", skills.value)
                 /\ resume_skills' = Bound(skills.value)

\* "if resume_file:" and its block.
ProcessResume ==
  /\ pc = "resume"
  /\ IF ~resume_file.present
     THEN /\ pc' = "jd"
          /\ UNCHANGED <<disk, resume_text, resume_skills, ui>>
     ELSE LET tmp_path == TempName(disk, UploadSuffix(resume_file))
          IN \/ \* tmp_file.write(resume_file.read()) raises
                /\ disk' = WithFile(disk, tmp_path, PartialFile)
                /\ ui' = ui \o <<Shown("exception", "resume", <<>>)>>
                /\ pc' = "crashed"
                /\ UNCHANGED <<resume_text, resume_skills>>
             \/ \* the upload is saved; try / except / finally
                LET fs == WithFile(disk, tmp_path, resume_file.file)
                IN /\ ResumeTry(parse_document(fs, tmp_path))
                   /\ disk' = Unlink(fs, tmp_path)
                   /\ pc' = "jd"
  /\ UNCHANGED <<process, inputs, jd_content, jd_skills, compared>>
  /\ UNCHANGED notApp

\* "if jd_content:" and its block, with content the value of jd_content
\* and shown what the page holds so far.
JdSkills(content, shown) ==
  IF ~Truthy(content)
  THEN /\ ui' = shown
       /\ pc' = "compare"
       /\ UNCHANGED jd_skills
  ELSE \E skills \in SkillOutcomes(content) :
         IF skills.raised
         THEN /\ ui' = shown
                   \o <<Shown("success", "jd", "Job description processed!"),
                        Shown("exception", "jd", <<>>)>>
              /\ pc' = "crashed"
              /\ UNCHANGED jd_skills
         ELSE /\ ui' = shown
                   \o <<Shown("success", "jd", "Job description processed!")>>
                   \o SkillDisplay("jd", skills.value)
              /\ pc' = "compare"
              /\ jd_skills' = Bound(skills.value)

\* "if jd_file or jd_text:" and its block.
ProcessJd ==
  /\ pc = "jd"
  /\ IF ~jd_file.present /\ jd_text = <<>>
     THEN /\ pc' = "compare"
          /\ UNCHANGED <<disk, jd_content, jd_skills, ui>>
     ELSE IF jd_file.present
          THEN LET tmp_path == TempName(disk, UploadSuffix(jd_file))
               IN \/ \* tmp_file.write(jd_file.read()) raises
                     /\ disk' = WithFile(disk, tmp_path, PartialFile)
                     /\ ui' = ui \o <<Shown("exception", "jd", <<>>)>>
                     /\ pc' = "crashed"
                     /\ UNCHANGED <<jd_content, jd_skills>>
                  \/ \* the upload is saved; try / except / finally
                     LET fs == WithFile(disk, tmp_path, jd_file.file)
                         outcome == parse_document(fs, tmp_path)
                     IN /\ disk' = Unlink(fs, tmp_path)
                        /\ IF outcome.raised
                           THEN /\ UNCHANGED jd_content
                                /\ JdSkills(jd_content,
                                     ui \o <<Shown("error", "jd",
                                               "Error parsing job description")>>)
                           ELSE /\ jd_content' = outcome.value
                                /\ JdSkills(outcome.value, ui)
          ELSE /\ jd_content' = Str(jd_text)
               /\ JdSkills(Str(jd_text), ui)
               /\ UNCHANGED disk
  /\ UNCHANGED <<process, inputs, resume_text, resume_skills, compared>>
  /\ UNCHANGED notApp

\* A gate that asks for the job description only.
ComparisonGateJdOnly == Truthy(jd_content)

\* if resume_text and jd_content:
ComparisonGate == Truthy(resume_text) /\ Truthy(jd_content)

\* The comparison section: "if resume_text and jd_content:" and its try
\* block.  The model may raise while encoding; after the two similarity
\* metrics are shown the skill counts read resume_skills, a NameError when
\* the resume's try block left it unassigned; the pie chart raises on a
\* negative wedge.
Compare ==
  /\ pc = "compare"
  /\ IF ComparisonGate
     THEN LET r == resume_text.str
              j == jd_content.str
          IN /\ compared' = Append(compared, <<r, j>>)
             /\ \/ ui' = ui \o <<Shown("error", "comparison",
                                       "Error during comparison")>>
                \/ \E model \in Models({r, j} \cup Range(Sections(r))
                                       \cup Range(Sections(j))) :
                     LET similarity_results == compare_resume_to_jd(model, r, j)
                         score == similarity_results.overall_similarity
                     IN IF ~resume_skills.bound \/ score < 0 \/ score > 100
                        THEN ui' = ui
                               \o <<Shown("metrics", "comparison", similarity_results),
                                    Shown("error", "comparison",
                                          "Error during comparison")>>
                        ELSE ui' = ui
                               \o <<Shown("metrics", "comparison", similarity_results),
                                    Shown("recommendation", "comparison",
                                          Recommendation(score))>>
     ELSE UNCHANGED <<compared, ui>>
  /\ pc' = "done"
  /\ UNCHANGED <<process, inputs, disk, resume_text, jd_content,
                 resume_skills, jd_skills>>
  /\ UNCHANGED notApp

\* The welcome page, when nothing was uploaded or pasted.
Welcome ==
  /\ pc = "welcome"
  /\ ui' = ui \o <<Shown("info", "welcome", "Welcome to the AI Resume Optimizer!")>>
  /\ pc' = "done"
  /\ UNCHANGED <<process, inputs, disk, locals>>
  /\ UNCHANGED notApp

(***************************************************************************)
(* Specifications: the application, and each library class called on its   *)
(* own.  The variables of the parts a specification does not run stay at   *)
(* their initial values.                                                   *)
(***************************************************************************)
Init == AppInit /\ SkInit /\ PaInit /\ SimInit

Next == Rerun \/ ProcessResume \/ ProcessJd \/ Compare \/ Welcome

Spec == Init /\ [][Next]_vars

NextSkills == ExtractSkills \/ CategorizeExtracted \/ CategorizeSkills \/ SkReturn

SpecSkills == Init /\ [][NextSkills]_vars

NextParser == ParseDocument \/ PaReturn

SpecParser == Init /\ [][NextParser]_vars

NextSim ==
  \/ ComputeSimilarity
  \/ CompareResumeToJd
  \/ FindBestMatches
  \/ GetSimilarityScore
  \/ SimReturn

SpecSim == Init /\ [][NextSim]_vars

(***************************************************************************)
(* Properties.                                                             *)
(***************************************************************************)
\* A run of main() has ended, by returning or by an exception.
RunEnded == pc \in {"done", "crashed"}

\* Some element of the given kind about the given document is on the page.
HasShown(kind, about) ==
  \E i \in 1..Len(ui) : ui[i].kind = kind /\ ui[i].about = about

\* C1: when a request ends, on any exit path (parse succeeded, parse
\* returned a failure, an exception while parsing or extracting skills, an
\* exception while the upload was written to the temporary file), no
\* temporary file created for an upload is left on disk.
C1_TempFilesDeletedOnEveryExit == RunEnded => DOMAIN disk = {}

\* The text extraction of an upload fails: parse_document gives no text
\* for the saved copy of the upload.
ExtractionFails(upload) ==
  LET path == TempName(<<>>, UploadSuffix(upload))
  IN upload.present
     /\ parse_document(WithFile(<<>>, path, upload.file), path).value.isNone

\* C2: whenever extracting the text of an uploaded document failed, the
\* page shows an error message about that document and does not show its
\* success message.
C2_FailedExtractionShowsErrorNotSuccess ==
  /\ (pc \in {"jd", "compare", "done"} /\ ExtractionFails(resume_file))
       => (HasShown("error", "resume") /\ ~HasShown("success", "resume"))
  /\ (pc \in {"compare", "done"} /\ ExtractionFails(jd_file))
       => (HasShown("error", "jd") /\ ~HasShown("success", "jd"))

\* The failure a parse_document call meets, by the taxonomy of the
\* extractor's contract; "none" when the document can be read.
FailureKind(call) ==
  LET ext == Lower(SplitExt(call.path))
  IN IF call.path \notin DOMAIN call.fs THEN "FileNotFound"
     ELSE IF ext \notin {<<".","p","d","f">>, <<".","d","o","c","x">>,
                         <<".","t","x","t">>}
          THEN "UnsupportedFormat"
     ELSE IF \/ ext = <<".","p","d","f">> /\ PdfReaderRaises(call.fs[call.path])
             \/ ext = <<".","d","o","c","x">> /\ DocxReaderRaises(call.fs[call.path])
          THEN "CorruptDocument"
     ELSE "none"

\* C3: parse_document never lets an exception reach its caller; a missing
\* path, an unsupported extension or a reader that raises gives a failure
\* result, and the result tells the caller which of the three it was: two
\* calls that fail for different reasons return different results.
C3_ParseFailuresCaughtAndLabeled ==
  \A i \in 1..Len(pa_calls), j \in 1..Len(pa_calls) :
    LET a == pa_calls[i]
        b == pa_calls[j]
    IN /\ ~a.outcome.raised
       /\ FailureKind(a) # "none" => a.outcome.value.isNone
       /\ (FailureKind(a) # "none" /\ FailureKind(b) # "none"
           /\ FailureKind(a) # FailureKind(b))
            => a.outcome # b.outcome

\* The job description is an uploaded .txt file with some text in it.
TxtJobDescription ==
  /\ jd_file.present
  /\ Lower(SplitExt(jd_file.name)) = <<".","t","x","t">>
  /\ jd_file.file.format = "txt"
  /\ JoinedText(jd_file.file.parts) # <<>>

\* C4: a non-empty .txt job description is accepted: once its block has
\* run, jd_content holds its text and its skills are shown, and at the end
\* of the run the comparison has been made when a resume text is present.
C4_TxtJobDescriptionAccepted ==
  (TxtJobDescription /\ pc \in {"compare", "done"})
    => /\ Truthy(jd_content)
       /\ HasShown("skills", "jd")
       /\ (pc = "done" /\ Truthy(resume_text)) => compared # <<>>

\* Both documents were supplied in this run.
BothSupplied == resume_file.present /\ (jd_file.present \/ jd_text # <<>>)

\* C5: with both documents supplied, a failure of the resume never keeps
\* the job description from being processed (the run does not end inside
\* the resume's block), a failure of the job description leaves the
\* resume's results on the page, and a document whose parse failed has an
\* error of its own on the page.
C5_DocumentPipelinesIsolated ==
  (RunEnded /\ BothSupplied /\ components = "loaded" /\ ui # <<>>)
    => /\ ~(pc = "crashed" /\ ui[Len(ui)].about = "resume")
       /\ (pc = "crashed" /\ ui[Len(ui)].about = "jd")
            => (HasShown("success", "resume") \/ HasShown("error", "resume"))
       /\ ExtractionFails(resume_file) => HasShown("error", "resume")
       /\ (pc = "done" /\ ExtractionFails(jd_file)) => HasShown("error", "jd")

\* The words of skill are consecutive whole words of the text t.
WholeWordIn(skill, t) ==
  LET words == SplitWhitespace(t)
      sw == SplitWhitespace(skill)
  IN \E i \in 1..(Len(words) - Len(sw) + 1) :
       SubSeq(words, i, i + Len(sw) - 1) = sw

\* C6: every skill of the vocabulary that is a whole word of the
\* normalised text is in the list extract_skills returns.
C6_WholeWordVocabularySkillExtracted ==
  (sk_pc = "extracted" /\ Truthy(sk_text))
    => \A skill \in all_skills :
         WholeWordIn(skill, Normalize(sk_text.str))
           => skill \in Range(sk_skills)

\* C7: a comparison with an empty text gives 0.0 and does not invoke the
\* embedding model: compute_similarity with an empty argument, and
\* compare_resume_to_jd with an empty job description (all four metrics
\* 0.0, no section pair evaluated).
C7_EmptyTextSimilarityZeroWithoutModel ==
  /\ (sim_pc = "compute_similarity"
      /\ (sim_args[1] = <<>> \/ sim_args[2] = <<>>))
       => (sim_result = 0 /\ sim_calls = <<>>)
  /\ (sim_pc = "compare_resume_to_jd" /\ sim_args[2] = <<>>)
       => /\ sim_result.overall_similarity = 0
          /\ sim_result.avg_section_similarity = 0
          /\ sim_result.max_section_similarity = 0
          /\ sim_result.min_section_similarity = 0
          /\ sim_calls = <<>>

\* C8: categorize_skills puts no skill under two categories, and every
\* skill of a category list is a skill of the input list.
C8_CategoriesDisjointAndFromInput ==
  sk_pc = "categorized"
    => /\ \A k1 \in DOMAIN sk_categorized, k2 \in DOMAIN sk_categorized :
            k1 # k2
              => Range(sk_categorized[k1]) \cap Range(sk_categorized[k2]) = {}
       /\ \A k \in DOMAIN sk_categorized :
            Range(sk_categorized[k]) \subseteq Range(sk_skills)

\* A list with skills of two categories and one of none was categorized.
C8_Witness ==
  /\ sk_pc = "categorized"
  /\ Cardinality(DOMAIN sk_categorized) >= 2
  /\ <<"d","a","t","a">> \in Range(sk_skills)

\* What C9 says of a find_best_matches result: min(top_k, len) entries,
\* each the (index, score) of a candidate, no candidate twice, scores
\* non-increasing, equal scores in index order.
BestMatchesAsClaimed ==
  LET resume_t == sim_args[1]
      jd_list == sim_args[2]
      top_k == sim_args[3]
      n == Len(sim_result)
  IN /\ n = (IF top_k < Len(jd_list) THEN top_k ELSE Len(jd_list))
     /\ \A i \in 1..n :
          /\ sim_result[i][1] \in 0..(Len(jd_list) - 1)
          /\ sim_result[i][2] =
               compute_similarity(sim_model, resume_t, jd_list[sim_result[i][1] + 1])
     /\ \A i \in 1..n, j \in 1..n :
          i < j => /\ sim_result[i][2] >= sim_result[j][2]
                   /\ sim_result[i][2] = sim_result[j][2]
                        => sim_result[i][1] < sim_result[j][1]

\* C9 as stated: the above for every integer top_k.
C9_BestMatchesForEveryTopK ==
  sim_pc = "find_best_matches" => BestMatchesAsClaimed

\* C9 amended: the above for every top_k >= 0.
C9_BestMatchesForNonNegativeTopK ==
  (sim_pc = "find_best_matches" /\ sim_args[3] >= 0) => BestMatchesAsClaimed

\* A call that cut the list (0 < top_k < len) and returned a tie.
C9_Witness ==
  /\ sim_pc = "find_best_matches"
  /\ sim_args[3] >= 2
  /\ sim_args[3] < Len(sim_args[2])
  /\ sim_result[1][2] = sim_result[2][2]
  /\ sim_result[1][2] # 100

\* C10: get_similarity_score puts every score (in hundredths) into exactly
\* one of five bands, a boundary value into the higher one.
C10_ScoreBands ==
  sim_pc = "get_similarity_score"
    => LET score == sim_args[1]
       IN /\ score >= 80 <=> sim_result = "Excellent match"
          /\ (60 <= score /\ score < 80) <=> sim_result = "Good match"
          /\ (40 <= score /\ score < 60) <=> sim_result = "Fair match"
          /\ (20 <= score /\ score < 40) <=> sim_result = "Poor match"
          /\ score < 20 <=> sim_result = "Very poor match"

\* The boundary 0.8 was labelled.
C10_Witness ==
  /\ sim_pc = "get_similarity_score"
  /\ sim_args[1] = 80
  /\ sim_result = "Excellent match"

\* The number of positions of the list xs that hold x.
Occurrences(xs, x) == Cardinality({i \in 1..Len(xs) : xs[i] = x})

\* The similarities compare_resume_to_jd computed for its section pairs:
\* one for each model call after the first (the overall similarity).
PairSimilarities ==
  [k \in 1..(Len(sim_calls) - 1) |->
     compute_similarity(sim_model, sim_calls[k + 1][1], sim_calls[k + 1][2])]

\* C11: compare_resume_to_jd evaluates the similarity of exactly the pairs
\* (resume section, jd section) of the Cartesian product of the non-empty
\* trimmed sections of the two texts, each pair as often as its sections
\* occur; avg, max and min are the mean, maximum and minimum of these
\* similarities with min <= avg <= max, and all three are 0.0 when there
\* is no pair.
C11_SectionPairsAndMetrics ==
  sim_pc = "compare_resume_to_jd"
    => LET rs == Sections(sim_args[1])
           js == Sections(sim_args[2])
           pairs == SubSeq(sim_calls, 2, Len(sim_calls))
           sims == PairSimilarities
       IN /\ \A i \in 1..Len(rs) : rs[i] # <<>> /\ Strip(rs[i]) = rs[i]
          /\ \A i \in 1..Len(js) : js[i] # <<>> /\ Strip(js[i]) = js[i]
          /\ Range(pairs) = Range(rs) \X Range(js)
          /\ \A p \in Range(pairs) :
               Occurrences(pairs, p)
                 = Occurrences(rs, p[1]) * Occurrences(js, p[2])
          /\ sims # <<>>
               => /\ sim_result.max_section_similarity \in Range(sims)
                  /\ sim_result.min_section_similarity \in Range(sims)
                  /\ \A k \in 1..Len(sims) :
                       /\ sim_result.min_section_similarity <= sims[k]
                       /\ sims[k] <= sim_result.max_section_similarity
                  /\ sim_result.avg_section_similarity * Len(sims)
                       <= SumSeq(sims)
                  /\ SumSeq(sims)
                       < (sim_result.avg_section_similarity + 1) * Len(sims)
                  /\ sim_result.min_section_similarity
                       <= sim_result.avg_section_similarity
                  /\ sim_result.avg_section_similarity
                       <= sim_result.max_section_similarity
          /\ (rs = <<>> \/ js = <<>>)
               => /\ sim_result.avg_section_similarity = 0
                  /\ sim_result.max_section_similarity = 0
                  /\ sim_result.min_section_similarity = 0

\* Two sections against two sections: four pairs, whose similarities are
\* not all equal, so that min < avg < max.
C11_Witness ==
  /\ sim_pc = "compare_resume_to_jd"
  /\ Len(Sections(sim_args[1])) = 2
  /\ Len(Sections(sim_args[2])) = 2
  /\ Len(sim_calls) = 5
  /\ sim_result.min_section_similarity < sim_result.avg_section_similarity
  /\ sim_result.avg_section_similarity < sim_result.max_section_similarity

\* C12: every similarity the comparator returns lies in [0, 1] (0..100
\* hundredths), whatever vectors the model produced: the result of
\* compute_similarity and each of the four metrics of compare_resume_to_jd.
C12_SimilaritiesInUnitInterval ==
  /\ sim_pc = "compute_similarity" => sim_result \in 0..100
  /\ sim_pc = "compare_resume_to_jd"
       => /\ sim_result.overall_similarity \in 0..100
          /\ sim_result.avg_section_similarity \in 0..100
          /\ sim_result.max_section_similarity \in 0..100
          /\ sim_result.min_section_similarity \in 0..100

\* C13: the list extract_skills returns has no entry twice and is in
\* strictly ascending lexicographic (code point) order, also when the
\* keyword loop and the token loop added the same candidate.
C13_SkillsDeduplicatedAndAscending ==
  sk_pc = "extracted"
    => \A i \in 1..Len(sk_skills), j \in 1..Len(sk_skills) :
         i < j => /\ sk_skills[i] # sk_skills[j]
                  /\ StrLess(sk_skills[i], sk_skills[j])

\* A text for which the keyword loop and the token loop added the same
\* skill, and the token loop alone one that sorts before it.
C13_Witness ==
  /\ sk_pc = "extracted"
  /\ Truthy(sk_text)
  /\ Len(sk_skills) >= 2
  /\ \E skill \in KeywordMatches(Normalize(sk_text.str)) \cap PosCandidates(sk_doc) :
       /\ skill \in Range(sk_skills)
       /\ sk_skills[1] # skill
       /\ sk_skills[1] \notin KeywordMatches(Normalize(sk_text.str))

\* C14: across the requests of one process at most one embedding model is
\* constructed; once load_components has succeeded the cached components
\* are what every later request gets, and no step of any request
\* constructs another model or changes the cached instance.
C14_ModelLoadedOnceAndReused ==
  /\ [](model_loads <= 1 /\ (components = "loaded" <=> model_loads = 1))
  /\ [][components = "loaded"
          => UNCHANGED <<components, model_loads, loaded_run>>]_vars

\* A later request than the one that loaded the model has made its
\* comparison with the one model.
C14_Witness ==
  /\ pc = "done"
  /\ components = "loaded"
  /\ model_loads = 1
  /\ loaded_run = 1
  /\ run = 2
  /\ compared # <<>>

\* The stop words of the post-filter, as the claim lists them.
PostFilterStopWords ==
  {<<"w","o","r","k">>, <<"t","e","a","m">>,
   <<"p","r","o","j","e","c","t">>, <<"c","o","m","p","a","n","y">>,
   <<"c","l","i","e","n","t">>, <<"u","s","e","r">>,
   <<"s","y","s","t","e","m">>, <<"d","a","t","a">>,
   <<"t","i","m","e">>, <<"p","r","o","c","e","s","s">>}

\* C15: no entry of the list extract_skills returns has length 2 or less,
\* and none is a stop word of the post-filter, whether the keyword loop or
\* the token loop added the candidate.
C15_NoShortOrStopWordEntries ==
  sk_pc = "extracted"
    => \A i \in 1..Len(sk_skills) :
         /\ Len(sk_skills[i]) > 2
         /\ sk_skills[i] \notin PostFilterStopWords

\* The keyword loop added a two-character skill and the token loop a stop
\* word.
C15_Witness ==
  /\ sk_pc = "extracted"
  /\ Truthy(sk_text)
  /\ \E skill \in KeywordMatches(Normalize(sk_text.str)) : Len(skill) = 2
  /\ PosCandidates(sk_doc) \cap PostFilterStopWords # {}

\* The text parse_document gives for the saved copy of an upload.
ParsedText(upload) ==
  LET path == TempName(<<>>, UploadSuffix(upload))
  IN parse_document(WithFile(<<>>, path, upload.file), path).value

\* C16: compare_resume_to_jd is called in a run only with a non-empty
\* resume text parsed from the resume uploaded in that run and a non-empty
\* job description content of that run (parsed from the upload, or the
\* pasted text when nothing was uploaded), and at most once; a missing or
\* unparsable document means no comparison; a run that reached the
\* comparison never ends by an exception: it ends with the recommendation
\* or with the comparison's error on the page.
C16_ComparisonGatedAndContained ==
  /\ compared # <<>>
       => /\ Len(compared) = 1
          /\ resume_file.present
          /\ ~ExtractionFails(resume_file)
          /\ compared[1][1] = ParsedText(resume_file).str
          /\ compared[1][1] # <<>>
          /\ jd_file.present \/ jd_text # <<>>
          /\ jd_file.present => ~ExtractionFails(jd_file)
          /\ compared[1][2] = (IF jd_file.present
                               THEN ParsedText(jd_file).str ELSE jd_text)
          /\ compared[1][2] # <<>>
          /\ pc = "done"
          /\ ui[Len(ui)].about = "comparison"
          /\ ui[Len(ui)].kind \in {"recommendation", "error"}
  /\ pc = "crashed" => compared = <<>>

\* The comparison was made although the resume's skill extraction had
\* raised; its NameError was caught and shown after the metrics.
C16_Witness ==
  /\ pc = "done"
  /\ compared # <<>>
  /\ ~resume_skills.bound
  /\ HasShown("error", "resume")
  /\ HasShown("metrics", "comparison")
  /\ ui[Len(ui)].kind = "error"
  /\ ui[Len(ui)].about = "comparison"

====
